---- MODULE Spec2Model ----
(***************************************************************************)
(* Binance Futures trading bot: the command-line run (cli.py main), the    *)
(* parameter validator (bot/validators.py), the order router               *)
(* (bot/orders.py OrderService.create) and the signed transport            *)
(* (bot/client.py BinanceFuturesClient).                                   *)
(*                                                                         *)
(* Python values are tagged records: [t |-> "str", s |-> ..],              *)
(* [t |-> "int", n |-> ..], [t |-> "float", n |-> ..] (a float with an     *)
(* integral value n), [t |-> "hex", ..] (a hex digest) and NoneVal.        *)
(* A dict is the sequence of its <<key, value>> items in insertion order.  *)
(* A text (a Python str built by formatting) is a sequence of tokens.      *)
(***************************************************************************)
EXTENDS Integers, Sequences, FiniteSets, TLC

\* ---------------------------------------------------------------- bounds
\* Largest millisecond clock reading time.time() can return in a run.
MaxClock == 1
\* Quantities range over the floats -1.0 .. MaxQty.0.
MaxQty == 1
\* Prices range over None and the floats 0.0 .. MaxPrice.0.
MaxPrice == 1

\* -------------------------------------------------------- program constants
\* The leverage ensure_symbol_ready asks for.
DefaultLeverage == 10

BASE_URL == "https://testnet.binancefuture.com"
LeveragePath == "/fapi/v1/leverage"
OrderPath == "/fapi/v1/order"

\* ------------------------------------------------------------ Python values
NoneVal == [t |-> "None"]
PyStrVal(s) == [t |-> "str", s |-> s]
PyInt(n) == [t |-> "int", n |-> n]
PyFloat(n) == [t |-> "float", n |-> n]

\* bool(value) for the values an environment variable can have.
Truthy(v) == v # NoneVal /\ v # PyStrVal("")

Digit == <<"0", "1", "2", "3", "4", "5", "6", "7", "8", "9">>

RECURSIVE NatStr(_)
NatStr(n) == IF n < 10 THEN <<Digit[n + 1]>>
             ELSE NatStr(n \div 10) \o <<Digit[(n % 10) + 1]>>

IntStr(n) == IF n < 0 THEN <<"-">> \o NatStr(-n) ELSE NatStr(n)

\* str(value), as urlencode applies it to every value of the mapping. The
\* text of a hex digest stands for the digest of (key, message); it is
\* symbolic and is not the key or the message in clear.
PyStr(v) ==
    CASE v.t = "str" -> <<v.s>>
      [] v.t = "int" -> IntStr(v.n)
      [] v.t = "float" -> IntStr(v.n) \o <<".", "0">>
      [] v.t = "hex" -> <<"hmac-sha256", v.key>> \o v.msg
      [] v.t = "None" -> <<"None">>

\* ---------------------------------------------------------------- dicts
DictKeys(d) == {d[i][1] : i \in 1..Len(d)}
DictHas(d, k) == k \in DictKeys(d)
DictGet(d, k) == d[CHOOSE i \in 1..Len(d) : d[i][1] = k][2]
\* d[k] = v: an existing key keeps its position, a new key goes last.
DictSet(d, k, v) ==
    IF DictHas(d, k)
    THEN [i \in 1..Len(d) |-> IF d[i][1] = k THEN <<k, v>> ELSE d[i]]
    ELSE Append(d, <<k, v>>)
DictWithout(d, k) == SelectSeq(d, LAMBDA it : it[1] # k)

\* urllib.parse.urlencode: key=value pairs joined with "&", each value
\* through str(); the keys and the str values of this program are
\* alphanumeric, which quote_plus leaves as they are.
RECURSIVE urlencode(_)
urlencode(d) ==
    IF Len(d) = 0 THEN <<>>
    ELSE LET head == <<d[1][1], "=">> \o PyStr(d[1][2])
         IN IF Len(d) = 1 THEN head
            ELSE head \o <<"&">> \o urlencode(Tail(d))

\* client.py _sign_request: HMAC-SHA256 of the encoded mapping under the
\* API secret, as a hex digest. The digest is kept symbolic (key, message),
\* i.e. HMAC is taken to be collision free.
sign_request(api_secret, params) ==
    [t |-> "hex", key |-> api_secret, msg |-> urlencode(params)]

get_request_headers(api_key) == << <<"X-MBX-APIKEY", api_key>> >>

\* ------------------------------------------------------------------ inputs
Symbols == {"BTCUSDT", "ETHUSDT"}
Sides == {"BUY", "SELL", "HOLD"}
Types == {"MARKET", "LIMIT", "STOP"}
Quantities == {PyFloat(q) : q \in -1..MaxQty}
Prices == {NoneVal} \cup {PyFloat(p) : p \in 0..MaxPrice}
Namespaces == [symbol : Symbols, side : Sides, type : Types,
               quantity : Quantities, price : Prices]
\* os.getenv gives None for an unset variable, else its (maybe empty) text.
KeyValues == {NoneVal, PyStrVal(""), PyStrVal("key")}
SecretValues == {NoneVal, PyStrVal(""), PyStrVal("secret")}
\* "cli": the namespace comes from argparse; "intent": it is handed to
\* main's validate/submit sequence by a caller other than argparse.
Entries == {"cli", "intent"}

\* What the remote end can answer with.
OkBody == <<"{", "\"orderId\"", ":", "1", "}">>
ErrBody == <<"{", "\"code\"", ":", "-2019", ",",
             "\"msg\"", ":", "\"Margin is insufficient\"", "}">>
BadBody == <<"<html>">>
Responses == {[status_code |-> 200, text |-> OkBody],
              [status_code |-> 200, text |-> BadBody],
              [status_code |-> 400, text |-> ErrBody],
              [status_code |-> 503, text |-> ErrBody],
              [status_code |-> 503, text |-> BadBody]}
\* requests.post raising instead of returning a response.
SendFailures == {"Timeout", "ConnectionError"}

\* ------------------------------------------------------------- exceptions
Exc(type, msg, resp) == [type |-> type, msg |-> msg, response |-> resp]
\* str(exception)
ExcStr(e) == e.msg

\* ---------------------------------------------------------------- argparse
\* cli.py parse_command_line_arguments: choices= on --side and --type.
ArgparseAccepts(a) == a.side \in {"BUY", "SELL"} /\ a.type \in {"MARKET", "LIMIT"}

\* --------------------------------------------------------------- validator
\* validate_common with the quantity test written "< 0".
validate_common_lt(a) ==
    IF a.side \notin {"BUY", "SELL"}
    THEN Exc("ValueError", <<"Invalid order side", a.side>>, NoneVal)
    ELSE IF a.quantity.n < 0
    THEN Exc("ValueError", <<"Invalid quantity">> \o PyStr(a.quantity), NoneVal)
    ELSE IF a.type = "LIMIT" /\ a.price = NoneVal
    THEN Exc("ValueError", <<"Price is required for LIMIT orders">>, NoneVal)
    ELSE NoneVal

\* validators.py validate_common: the ValueError it raises, or NoneVal.
validate_common(a) ==
    IF a.side \notin {"BUY", "SELL"}
    THEN Exc("ValueError", <<"Invalid order side", a.side>>, NoneVal)
    ELSE IF a.quantity.n <= 0
    THEN Exc("ValueError", <<"Invalid quantity">> \o PyStr(a.quantity), NoneVal)
    ELSE IF a.type = "LIMIT" /\ a.price = NoneVal
    THEN Exc("ValueError", <<"Price is required for LIMIT orders">>, NoneVal)
    ELSE NoneVal

\* ------------------------------------------------------ response handling
\* The reason phrase of a status line.
Reason(status) == CASE status = 200 -> "OK"
                    [] status = 400 -> "Bad Request"
                    [] status = 503 -> "Service Unavailable"
                    [] OTHER -> "Unknown"

\* requests Response.raise_for_status: the HTTPError for a 4xx/5xx status
\* (it keeps the response), or NoneVal.
raise_for_status(r) ==
    IF 400 <= r.status_code /\ r.status_code < 500
    THEN Exc("HTTPError",
             IntStr(r.status_code) \o <<"Client Error:", Reason(r.status_code),
                                        "for url:">> \o r.url, r)
    ELSE IF 500 <= r.status_code /\ r.status_code < 600
    THEN Exc("HTTPError",
             IntStr(r.status_code) \o <<"Server Error:", Reason(r.status_code),
                                        "for url:">> \o r.url, r)
    ELSE NoneVal

\* Response.json: the members of a JSON object as <<name, value>> items.
RECURSIVE JsonMembers(_)
JsonMembers(toks) ==
    IF Len(toks) < 3 THEN <<>>
    ELSE << <<toks[1], toks[3]>> >> \o
         (IF Len(toks) >= 5 THEN JsonMembers(SubSeq(toks, 5, Len(toks))) ELSE <<>>)

IsJson(text) == Len(text) >= 2 /\ text[1] = "{" /\ text[Len(text)] = "}"
ParseJson(text) == JsonMembers(SubSeq(text, 2, Len(text) - 1))

\* ------------------------------------------------------------------- state
VARIABLES
    entry,           \* how the namespace reached main
    args,            \* the order namespace
    env,             \* BINANCE_API_KEY / BINANCE_API_SECRET
    pc,              \* position of the run
    client,          \* the BinanceFuturesClient, NoneVal before construction
    method,          \* the client method OrderService.create routed to
    phase,           \* which call of the method is in flight
    request_params,  \* the dict object handed to _post_request
    frame,           \* the running _post_request invocation
    clock,           \* last reading of time.time() in milliseconds
    net,             \* the requests put on the wire, in order
    log,             \* the log records emitted, in order
    response,        \* the response requests.post returned
    exc,             \* the exception in flight or the run ended with
    ret,             \* the value _post_request returned
    calls,           \* the finished _post_request invocations
    stdout,          \* what main printed
    result           \* how the run ended

vars == <<entry, args, env, pc, client, method, phase, request_params, frame,
          clock, net, log, response, exc, ret, calls, stdout, result>>

LogRecord(name, level, event, data) ==
    [name |-> name, level |-> level, event |-> event, data |-> data]

Init ==
    /\ entry \in Entries
    /\ args \in Namespaces
    /\ env \in [key : KeyValues, secret : SecretValues]
    /\ pc = IF entry = "cli" THEN "parse" ELSE "validate"
    /\ client = NoneVal
    /\ method = "none"
    /\ phase = "none"
    /\ request_params = <<>>
    /\ frame = NoneVal
    /\ clock = 0
    /\ net = <<>>
    /\ log = <<>>
    /\ response = NoneVal
    /\ exc = NoneVal
    /\ ret = NoneVal
    /\ calls = <<>>
    /\ stdout = <<>>
    /\ result = "running"

\* ------------------------------------------------------------- cli.py main
\* parse_command_line_arguments: argparse exits with a usage error on a
\* --side or --type outside its choices.
ParseArgs ==
    /\ pc = "parse"
    /\ IF ArgparseAccepts(args)
       THEN /\ pc' = "validate"
            /\ UNCHANGED <<exc, result>>
       ELSE /\ pc' = "done"
            /\ exc' = Exc("SystemExit", <<"usage", "invalid choice">>, NoneVal)
            /\ result' = "usage_error"
    /\ UNCHANGED <<entry, args, env, client, method, phase, request_params,
                   frame, clock, net, log, response, ret, calls, stdout>>

\* main: validate_common(parsed_arguments); a ValueError is not caught.
ValidateCommon ==
    /\ pc = "validate"
    /\ IF validate_common(args) = NoneVal
       THEN /\ pc' = "creds"
            /\ UNCHANGED <<exc, result>>
       ELSE /\ pc' = "done"
            /\ exc' = validate_common(args)
            /\ result' = "ValueError"
    /\ UNCHANGED <<entry, args, env, client, method, phase, request_params,
                   frame, clock, net, log, response, ret, calls, stdout>>

\* CheckCredentials with the test written "is None": an empty value passes.
CheckCredentialsIsNone ==
    /\ pc = "creds"
    /\ IF env.key = NoneVal \/ env.secret = NoneVal
       THEN /\ pc' = "done"
            /\ exc' = Exc("SystemExit",
                          <<"ERROR: Set BINANCE_API_KEY and BINANCE_API_SECRET environment variables">>,
                          NoneVal)
            /\ result' = "config_error"
            /\ UNCHANGED <<client, stdout>>
       ELSE /\ pc' = "create"
            /\ client' = [api_key |-> env.key.s, api_secret |-> env.secret.s]
            /\ stdout' = Append(stdout, [line |-> "Order Request", text |-> <<>>])
            /\ UNCHANGED <<exc, result>>
    /\ UNCHANGED <<entry, args, env, method, phase, request_params, frame,
                   clock, net, log, response, ret, calls>>

\* main: read the credentials, SystemExit when one is missing or empty,
\* else build the client and the service and print the request.
CheckCredentials ==
    /\ pc = "creds"
    /\ IF ~Truthy(env.key) \/ ~Truthy(env.secret)
       THEN /\ pc' = "done"
            /\ exc' = Exc("SystemExit",
                          <<"ERROR: Set BINANCE_API_KEY and BINANCE_API_SECRET environment variables">>,
                          NoneVal)
            /\ result' = "config_error"
            /\ UNCHANGED <<client, stdout>>
       ELSE /\ pc' = "create"
            /\ client' = [api_key |-> env.key.s, api_secret |-> env.secret.s]
            /\ stdout' = Append(stdout, [line |-> "Order Request", text |-> <<>>])
            /\ UNCHANGED <<exc, result>>
    /\ UNCHANGED <<entry, args, env, method, phase, request_params, frame,
                   clock, net, log, response, ret, calls>>

\* ------------------------------------------------- orders.py OrderService
\* Route with every type but LIMIT sent down the market path.
RouteDefaultMarket(a) == IF a.type = "LIMIT" THEN "place_limit_order"
                         ELSE "place_market_order"

\* The client method create routes to, "none" for an unsupported type.
Route(a) == CASE a.type = "MARKET" -> "place_market_order"
              [] a.type = "LIMIT" -> "place_limit_order"
              [] OTHER -> "none"

\* OrderService.create: route on the type, ValueError on any other type.
Create ==
    /\ pc = "create"
    /\ IF Route(args) # "none"
       THEN /\ method' = Route(args)
            /\ pc' = "ensure"
            /\ UNCHANGED exc
       ELSE /\ exc' = Exc("ValueError", <<"Unsupported order type:", args.type>>, NoneVal)
            /\ pc' = "report"
            /\ UNCHANGED method
    /\ UNCHANGED <<entry, args, env, client, phase, request_params, frame,
                   clock, net, log, response, ret, calls, stdout, result>>

\* ------------------------------------------- client.py BinanceFuturesClient
\* set_leverage: the mapping it builds for /fapi/v1/leverage.
LeverageParams(symbol, leverage) ==
    << <<"symbol", PyStrVal(symbol)>>, <<"leverage", PyInt(leverage)>> >>

\* place_market_order: the mapping it builds for /fapi/v1/order.
MarketParams(symbol, side, quantity) ==
    << <<"symbol", PyStrVal(symbol)>>, <<"side", PyStrVal(side)>>,
       <<"type", PyStrVal("MARKET")>>, <<"quantity", quantity>> >>

\* place_limit_order: the mapping it builds for /fapi/v1/order.
LimitParams(symbol, side, quantity, price) ==
    << <<"symbol", PyStrVal(symbol)>>, <<"side", PyStrVal(side)>>,
       <<"type", PyStrVal("LIMIT")>>, <<"timeInForce", PyStrVal("GTC")>>,
       <<"quantity", quantity>>, <<"price", price>> >>

\* SignedParams with the two steps swapped: signed, then stamped.
SignedParamsSignFirst(api_secret, params, now) ==
    LET signed == DictSet(params, "signature", sign_request(api_secret, params))
    IN DictSet(signed, "timestamp", PyInt(now))

\* _post_request, lines 84-87: the timestamp goes into the mapping it was
\* given, then the signature of that mapping goes into it.
SignedParams(api_secret, params, now) ==
    LET stamped == DictSet(params, "timestamp", PyInt(now))
    IN DictSet(stamped, "signature", sign_request(api_secret, stamped))

NewFrame(path, params) ==
    [path |-> path, arg0 |-> params, net0 |-> Len(net), log0 |-> Len(log)]

\* place_*_order -> ensure_symbol_ready -> set_leverage(symbol, 10):
\* builds the leverage mapping and enters _post_request.
EnsureSymbolReady ==
    /\ pc = "ensure"
    /\ phase' = "leverage"
    /\ request_params' = LeverageParams(args.symbol, DefaultLeverage)
    /\ frame' = NewFrame(LeveragePath, request_params')
    /\ pc' = "post_begin"
    /\ UNCHANGED <<entry, args, env, client, method, clock, net, log,
                   response, exc, ret, calls, stdout, result>>

\* _post_request up to the request log record (lines 81-90).
PostBegin ==
    /\ pc = "post_begin"
    /\ \E now \in clock..MaxClock :
         /\ clock' = now
         /\ request_params' = SignedParams(client.api_secret, request_params, now)
    /\ log' = Append(log, LogRecord("client", "INFO", "POST",
                                    [path |-> frame.path, params |-> request_params']))
    /\ pc' = "post_send"
    /\ UNCHANGED <<entry, args, env, client, method, phase, frame, net,
                   response, exc, ret, calls, stdout, result>>

\* requests.post (lines 94-99): one request on the wire; a response comes
\* back, or the call raises (timeout, connection failure).
PostSend ==
    /\ pc = "post_send"
    /\ net' = Append(net, [verb |-> "POST",
                           url |-> <<BASE_URL, frame.path>>,
                           headers |-> get_request_headers(client.api_key),
                           params |-> request_params])
    /\ \/ \E r \in Responses :
            /\ response' = [status_code |-> r.status_code, text |-> r.text,
                            url |-> <<BASE_URL, frame.path, "?">>
                                    \o urlencode(request_params)]
            /\ pc' = "post_recv"
            /\ UNCHANGED exc
       \/ \E f \in SendFailures :
            /\ exc' = Exc(f, <<f, "for url:", BASE_URL, frame.path>>, NoneVal)
            /\ pc' = "post_except"
            /\ UNCHANGED response
    /\ UNCHANGED <<entry, args, env, client, method, phase, request_params,
                   frame, clock, log, ret, calls, stdout, result>>

\* Lines 101-108: log the response, raise on an error status, else parse
\* the body and return it.
PostReceive ==
    /\ pc = "post_recv"
    /\ log' = Append(log, LogRecord("client", "INFO", "RESPONSE",
                                    [status_code |-> response.status_code,
                                     text |-> response.text]))
    /\ IF raise_for_status(response) # NoneVal
       THEN /\ exc' = raise_for_status(response)
            /\ pc' = "post_except"
            /\ UNCHANGED ret
       ELSE IF ~IsJson(response.text)
       THEN /\ exc' = Exc("JSONDecodeError", <<"Expecting value">>, NoneVal)
            /\ pc' = "post_except"
            /\ UNCHANGED ret
       ELSE /\ ret' = [t |-> "json", members |-> ParseJson(response.text)]
            /\ pc' = "post_return"
            /\ UNCHANGED exc
    /\ UNCHANGED <<entry, args, env, client, method, phase, request_params,
                   frame, clock, net, response, calls, stdout, result>>

\* PostExcept with one more attempt at the request before giving up.
PostExceptRetry ==
    /\ pc = "post_except"
    /\ log' = Append(log, LogRecord("client", "ERROR", "API error", ExcStr(exc)))
    /\ pc' = IF Len(net) - frame.net0 < 2 THEN "post_send" ELSE "post_return"
    /\ UNCHANGED <<entry, args, env, client, method, phase, request_params,
                   frame, clock, net, response, exc, ret, calls, stdout, result>>

\* PostExcept without its log record.
PostExceptSilent ==
    /\ pc = "post_except"
    /\ pc' = "post_return"
    /\ UNCHANGED <<entry, args, env, client, method, phase, request_params,
                   frame, clock, net, log, response, exc, ret, calls, stdout,
                   result>>

\* Lines 110-113: log the error and raise it again.
PostExcept ==
    /\ pc = "post_except"
    /\ log' = Append(log, LogRecord("client", "ERROR", "API error", ExcStr(exc)))
    /\ pc' = "post_return"
    /\ UNCHANGED <<entry, args, env, client, method, phase, request_params,
                   frame, clock, net, response, exc, ret, calls, stdout, result>>

\* The record of the _post_request invocation that has just ended.
FinishedCall ==
    [path |-> frame.path, arg0 |-> frame.arg0, arg1 |-> request_params,
     nets |-> Len(net) - frame.net0, logs |-> Len(log) - frame.log0,
     resp |-> response, ret |-> ret, exc |-> exc]

\* EnsureReturn without the except clause: a failed leverage call ends the
\* order method.
EnsureReturnPropagate ==
    /\ pc = "post_return"
    /\ phase = "leverage"
    /\ calls' = Append(calls, FinishedCall)
    /\ ret' = NoneVal
    /\ frame' = NoneVal
    /\ pc' = IF exc = NoneVal THEN "order" ELSE "report"
    /\ UNCHANGED <<entry, args, env, client, method, phase, request_params,
                   clock, net, log, response, exc, stdout, result>>

\* ensure_symbol_ready, lines 145-150: the value set_leverage returns is
\* dropped and any Exception it raises is passed over.
EnsureReturn ==
    /\ pc = "post_return"
    /\ phase = "leverage"
    /\ calls' = Append(calls, FinishedCall)
    /\ exc' = NoneVal
    /\ ret' = NoneVal
    /\ response' = NoneVal
    /\ frame' = NoneVal
    /\ pc' = "order"
    /\ UNCHANGED <<entry, args, env, client, method, phase, request_params,
                   clock, net, log, stdout, result>>

\* OrderParams with the limit mapping built for every order.
OrderParamsAlwaysLimit(m, a) == LimitParams(a.symbol, a.side, a.quantity, a.price)

\* The mapping the routed method builds for the order.
OrderParams(m, a) ==
    IF m = "place_market_order"
    THEN MarketParams(a.symbol, a.side, a.quantity)
    ELSE LimitParams(a.symbol, a.side, a.quantity, a.price)

\* place_market_order / place_limit_order after ensure_symbol_ready:
\* builds the order mapping and enters _post_request.
PlaceOrder ==
    /\ pc = "order"
    /\ phase' = "order"
    /\ request_params' = OrderParams(method, args)
    /\ frame' = NewFrame(OrderPath, request_params')
    /\ pc' = "post_begin"
    /\ UNCHANGED <<entry, args, env, client, method, clock, net, log,
                   response, exc, ret, calls, stdout, result>>

\* The order _post_request ends: place_*_order and OrderService.create
\* return its value, or let its exception through, to main.
OrderReturn ==
    /\ pc = "post_return"
    /\ phase = "order"
    /\ calls' = Append(calls, FinishedCall)
    /\ frame' = NoneVal
    /\ pc' = "report"
    /\ UNCHANGED <<entry, args, env, client, method, phase, request_params,
                   clock, net, log, response, exc, ret, stdout, result>>

\* main, lines 94-106: print the response, or log and print the failure.
Report ==
    /\ pc = "report"
    /\ IF exc = NoneVal
       THEN /\ stdout' = stdout \o << [line |-> "API Response", text |-> ret.members],
                                    [line |-> "SUCCESS", text |-> <<>>] >>
            /\ result' = "success"
            /\ UNCHANGED log
       ELSE /\ log' = Append(log, LogRecord("cli", "ERROR", "Order placement failed",
                                            <<exc.type>> \o ExcStr(exc)))
            /\ stdout' = Append(stdout, [line |-> "FAILED", text |-> ExcStr(exc)])
            /\ result' = "failed"
    /\ pc' = "done"
    /\ UNCHANGED <<entry, args, env, client, method, phase, request_params,
                   frame, clock, net, response, exc, ret, calls>>

Next ==
    \/ ParseArgs
    \/ ValidateCommon
    \/ CheckCredentials
    \/ Create
    \/ EnsureSymbolReady
    \/ PostBegin
    \/ PostSend
    \/ PostReceive
    \/ PostExcept
    \/ EnsureReturn
    \/ PlaceOrder
    \/ OrderReturn
    \/ Report

Spec == Init /\ [][Next]_vars

TypeOK ==
    /\ pc \in {"parse", "validate", "creds", "create", "ensure", "post_begin",
               "post_send", "post_recv", "post_except", "post_return", "order",
               "report", "done"}
    /\ result \in {"running", "usage_error", "ValueError", "config_error",
                   "success", "failed"}
    /\ (pc = "done") <=> (result # "running")
    /\ clock \in 0..MaxClock

\* ------------------------------------------------------------- properties
Range(seq) == {seq[i] : i \in 1..Len(seq)}
Done == pc = "done"
CredsPresent == Truthy(env.key) /\ Truthy(env.secret)
\* An intent the validator is to reject.
InvalidIntent(a) ==
    \/ a.side \notin {"BUY", "SELL"}
    \/ a.quantity.n <= 0
    \/ (a.type = "LIMIT" /\ a.price = NoneVal)
ValidIntent(a) == ~InvalidIntent(a) /\ a.type \in {"MARKET", "LIMIT"}
\* No request was sent, and no transport invocation (timestamp, signature,
\* request log record) was even begun.
NoNetworkActivity ==
    /\ net = <<>>
    /\ calls = <<>>
    /\ frame = NoneVal
    /\ request_params = <<>>
    /\ log = <<>>
    /\ clock = 0
IsLeverageCall(n, symbol) ==
    /\ n.verb = "POST"
    /\ n.url = <<BASE_URL, "/fapi/v1/leverage">>
    /\ DictGet(n.params, "symbol") = PyStrVal(symbol)
    /\ DictGet(n.params, "leverage") = PyInt(10)
IsOrderCall(n) == n.verb = "POST" /\ n.url = <<BASE_URL, "/fapi/v1/order">>
Failed(c) == c.exc # NoneVal

\* C1: an intent with a side other than BUY/SELL, a quantity <= 0, or type
\* LIMIT without a price never causes network activity (no request, no
\* timestamp, no signature), and its run ends with a validation error.
C1_InvalidIntentNeverReachesNetwork ==
    InvalidIntent(args) =>
        /\ NoNetworkActivity
        /\ pc \in {"parse", "validate", "done"}
        /\ Done => /\ result \in {"ValueError", "usage_error"}
                   /\ result = "ValueError" => exc = validate_common(args)
                   /\ entry = "intent" => result = "ValueError"

\* C1 witness: a LIMIT order without a price, with both credentials set,
\* ended in the validator's ValueError.
C1_Witness ==
    /\ Done /\ result = "ValueError" /\ CredsPresent
    /\ args.side = "BUY" /\ args.quantity.n > 0
    /\ args.type = "LIMIT" /\ args.price = NoneVal

\* C2: for a valid MARKET or LIMIT intent with credentials present the
\* requests on the wire are one leverage POST (the intent's symbol,
\* leverage 10) and then one order POST, whatever either call's outcome;
\* a finished submission has sent exactly these two.
C2_LeverageThenOrderOnce ==
    (ValidIntent(args) /\ CredsPresent) =>
        /\ Len(net) <= 2
        /\ Len(net) >= 1 => IsLeverageCall(net[1], args.symbol)
        /\ Len(net) = 2 => IsOrderCall(net[2])
        /\ pc \in {"order", "post_begin", "post_send"} /\ phase = "order"
               => Len(net) = 1
        /\ pc \in {"report", "done"} => Len(net) = 2

\* C2 witness: the leverage call timed out, the order call got an error
\* status, and the run is over with two requests sent.
C2_Witness ==
    /\ Done /\ Len(calls) = 2 /\ Len(net) = 2
    /\ calls[1].exc # NoneVal /\ calls[1].exc.type = "Timeout"
    /\ calls[2].exc # NoneVal /\ calls[2].exc.type = "HTTPError"

\* C3: a failed leverage call is absorbed: the order POST follows it, no
\* exception is in flight when the order is built, and what the submission
\* hands to main (value or exception) is what the order call produced.
C3_BootstrapFailureAbsorbed ==
    /\ (Len(calls) >= 1 /\ Failed(calls[1])) =>
           /\ pc = "order" => exc = NoneVal /\ ret = NoneVal
           /\ pc \in {"report", "done"} => Len(net) = 2 /\ IsOrderCall(net[2])
    /\ (pc \in {"report", "done"} /\ method # "none") =>
           /\ Len(calls) = 2
           /\ calls[2].path = "/fapi/v1/order"
           /\ ret = calls[2].ret
           /\ exc = calls[2].exc
    /\ (Done /\ method # "none") =>
           /\ result = IF Failed(calls[2]) THEN "failed" ELSE "success"

\* C3 witness: the leverage call failed and the order went through.
C3_Witness ==
    /\ Done /\ Len(calls) = 2
    /\ Failed(calls[1]) /\ ~Failed(calls[2])
    /\ result = "success" /\ ret = [t |-> "json", members |-> ParseJson(OkBody)]

\* C4 as stated: with a credential absent or empty, every run ends in the
\* configuration error, with no network call.
C4_Original ==
    (Done /\ ~CredsPresent) => result = "config_error" /\ net = <<>>

\* C4 amended: with a credential absent or empty no run causes network
\* activity; a run whose intent passes argument parsing and validation
\* ends in the configuration error, any other run in its validation error.
C4_MissingCredentialsNoNetwork ==
    ~CredsPresent =>
        /\ NoNetworkActivity
        /\ client = NoneVal
        /\ Done =>
             IF InvalidIntent(args) \/ (entry = "cli" /\ ~ArgparseAccepts(args))
             THEN result \in {"ValueError", "usage_error"}
             ELSE result = "config_error" /\ exc.type = "SystemExit"

\* C4 witness: a valid intent, the key set and the secret empty, ended in
\* the configuration error.
C4_Witness ==
    /\ Done /\ result = "config_error" /\ ValidIntent(args)
    /\ env.key = PyStrVal("key") /\ env.secret = PyStrVal("")

\* C5: the order POST carries, for MARKET, exactly symbol, side,
\* type=MARKET, quantity, timestamp, signature (no price, no timeInForce);
\* for LIMIT exactly symbol, side, type=LIMIT, timeInForce=GTC, quantity,
\* price, timestamp, signature; the values are the intent's.
C5_OrderParameterSet ==
    \A i \in 1..Len(net) :
        IsOrderCall(net[i]) =>
            LET p == net[i].params
                common == /\ DictGet(p, "symbol") = PyStrVal(args.symbol)
                          /\ DictGet(p, "side") = PyStrVal(args.side)
                          /\ DictGet(p, "quantity") = args.quantity
                          /\ DictGet(p, "timestamp").t = "int"
                          /\ DictGet(p, "signature").t = "hex"
            IN /\ args.type \in {"MARKET", "LIMIT"}
               /\ Len(p) = Cardinality(DictKeys(p))
               /\ args.type = "MARKET" =>
                    /\ DictKeys(p) = {"symbol", "side", "type", "quantity",
                                      "timestamp", "signature"}
                    /\ DictGet(p, "type") = PyStrVal("MARKET")
                    /\ common
               /\ args.type = "LIMIT" =>
                    /\ DictKeys(p) = {"symbol", "side", "type", "timeInForce",
                                      "quantity", "price", "timestamp", "signature"}
                    /\ DictGet(p, "type") = PyStrVal("LIMIT")
                    /\ DictGet(p, "timeInForce") = PyStrVal("GTC")
                    /\ DictGet(p, "price") = args.price
                    /\ common

\* C5 witness: the order of a MARKET intent that carries a price was sent.
C5_Witness ==
    /\ Len(net) = 2 /\ IsOrderCall(net[2])
    /\ args.type = "MARKET" /\ args.price # NoneVal

\* C6: every request sent carries a timestamp and, as its last item, a
\* signature that equals the signature re-derived, with the secret, from
\* the sent parameters without the signature in their sent order; the
\* signed text contains the timestamp.
C6_SignatureCoversTransmittedParams ==
    \A i \in 1..Len(net) :
        LET p == net[i].params
            rest == DictWithout(p, "signature")
        IN /\ DictHas(p, "timestamp") /\ DictHas(p, "signature")
           /\ p[Len(p)][1] = "signature"
           /\ Len(rest) = Len(p) - 1
           /\ DictGet(p, "signature") = sign_request(env.secret.s, rest)
           /\ DictGet(p, "signature").msg = urlencode(rest)
           /\ "timestamp" \in Range(DictGet(p, "signature").msg)
           /\ net[i].headers = << <<"X-MBX-APIKEY", env.key.s>> >>

\* C6 witness: both requests of a LIMIT order were sent.
C6_Witness ==
    /\ Len(net) = 2 /\ args.type = "LIMIT"
    /\ DictGet(net[2].params, "timestamp") = PyInt(MaxClock)

\* The texts of a JSON error body's code and message.
ErrorTexts(text) ==
    IF IsJson(text)
    THEN {m[2] : m \in {x \in Range(ParseJson(text)) : x[1] \in {"\"code\"", "\"msg\""}}}
    ELSE {}
\* What main reports of a failure: the FAILED line and its log record.
ReportedTexts ==
    UNION {Range(l.text) : l \in {x \in Range(stdout) : x.line = "FAILED"}}
    \cup UNION {Range(r.data) : r \in {x \in Range(log) : x.name = "cli"}}

\* C7 as stated: when the order call gets an error status the run fails
\* with an error carrying status and body, what main reports contains the
\* body's code and message, and the body is never returned as a payload.
C7_Claim ==
    (Done /\ Len(calls) = 2 /\ calls[2].resp # NoneVal
          /\ calls[2].resp.status_code >= 400) =>
        /\ result = "failed"
        /\ ret = NoneVal
        /\ exc.type = "HTTPError"
        /\ exc.response.status_code = calls[2].resp.status_code
        /\ exc.response.text = calls[2].resp.text
        /\ ErrorTexts(calls[2].resp.text) \subseteq ReportedTexts

\* C8: an intent whose type is neither MARKET nor LIMIT causes no network
\* activity; when it reaches the router, the router raises its ValueError
\* naming the type and the run ends failed.
C8_UnsupportedTypeFailsFast ==
    args.type \notin {"MARKET", "LIMIT"} =>
        /\ NoNetworkActivity \/ (Done /\ result = "failed" /\ net = <<>>
                                   /\ calls = <<>> /\ request_params = <<>>
                                   /\ clock = 0)
        /\ method = "none"
        /\ pc \in {"parse", "validate", "creds", "create", "report", "done"}
        /\ pc = "report" =>
             exc = Exc("ValueError", <<"Unsupported order type:", args.type>>, NoneVal)
        /\ (Done /\ client # NoneVal) =>
             /\ result = "failed"
             /\ exc.type = "ValueError"
             /\ args.type \in ReportedTexts

\* C8 witness: type STOP passed the validator and was refused by the router.
C8_Witness ==
    /\ Done /\ args.type = "STOP" /\ client # NoneVal /\ result = "failed"

\* C9 as stated: after a send the mapping the caller handed over is as it
\* was before the call.
C9_Claim ==
    \A i \in 1..Len(calls) : calls[i].arg1 = calls[i].arg0

\* C10 as stated: every transport invocation sends one request and emits
\* one or two log records: the request record, and the response record
\* when a response came.
C10_Original ==
    \A i \in 1..Len(calls) :
        /\ calls[i].nets = 1
        /\ calls[i].logs \in {1, 2}
        /\ calls[i].logs = 1 + (IF calls[i].resp # NoneVal THEN 1 ELSE 0)

\* C10 amended: every transport invocation sends exactly one request and
\* emits two or three log records: the request record, the response
\* record when a response came, and an error record when it fails.
C10_OneCallTwoOrThreeLogs ==
    /\ \A i \in 1..Len(calls) :
        /\ calls[i].nets = 1
        /\ calls[i].logs \in {2, 3}
        /\ calls[i].logs = 1 + (IF calls[i].resp # NoneVal THEN 1 ELSE 0)
                             + (IF Failed(calls[i]) THEN 1 ELSE 0)
    /\ frame # NoneVal =>
        /\ Len(net) - frame.net0 <= 1
        /\ Len(log) - frame.log0 <= 3
        /\ pc \in {"post_recv", "post_except", "post_return"}
               => Len(net) - frame.net0 = 1

\* C10 witness: an invocation that got an error status emitted three
\* records, and one that timed out emitted two.
C10_Witness ==
    /\ Len(calls) = 2
    /\ calls[1].resp # NoneVal /\ Failed(calls[1]) /\ calls[1].logs = 3
    /\ calls[2].resp = NoneVal /\ Failed(calls[2]) /\ calls[2].logs = 2

====
